---- MODULE Spec2Model ----
(***************************************************************************)
(* The toolbelt of src/tools.py: read_file, list_files, bash, edit_file,   *)
(* run against a POSIX filesystem and a subprocess environment.            *)
(*                                                                         *)
(* A string is a sequence of one-character strings ("CR" and "LF" stand    *)
(* for carriage return and line feed, "xFF" for a byte that is not valid   *)
(* UTF-8).  A path given by the caller is such a string; pathlib parses it *)
(* into its parts, a sequence of names.  The filesystem is a function from *)
(* the parts of every existing entry to [isDir, content]; the working      *)
(* directory is the empty sequence of parts and always exists.             *)
(***************************************************************************)
EXTENDS Integers, Sequences, FiniteSets, TLC

VARIABLES fs, pre, call, result, ops, hist

vars == <<fs, pre, call, result, ops, hist>>

\* Bounds of the model.
MaxContent == 3
MaxEntries == 4
MaxDepth == 2
MaxOut == 3
MaxErr == 1

-----------------------------------------------------------------------------
(* Strings *)

CR == "CR"
LF == "LF"
SEP == "/"
DOT == "."

RECURSIVE StrSet(_, _)
\* Every string over the characters cs of length at most n.
StrSet(cs, n) ==
  IF n = 0 THEN {<<>>}
  ELSE LET shorter == StrSet(cs, n - 1)
       IN shorter \cup {<<c>> \o s : c \in cs, s \in {t \in shorter : Len(t) = n - 1}}

Drop(s, n) == SubSeq(s, n + 1, Len(s))

StartsWith(s, t) == Len(t) <= Len(s) /\ SubSeq(s, 1, Len(t)) = t

RECURSIVE Concat(_)
\* The concatenation of a sequence of strings.
Concat(ss) == IF ss = <<>> THEN <<>> ELSE Head(ss) \o Concat(Tail(ss))

RECURSIVE Count(_, _)
\* str.count(sub), sub non-empty: left-to-right non-overlapping occurrences.
Count(s, sub) ==
  IF Len(s) < Len(sub) THEN 0
  ELSE IF StartsWith(s, sub) THEN 1 + Count(Drop(s, Len(sub)), sub)
  ELSE Count(Tail(s), sub)

RECURSIVE ReplaceFirst(_, _, _)
\* str.replace(old, new, 1), old non-empty.
ReplaceFirst(s, old, new) ==
  IF Len(s) < Len(old) THEN s
  ELSE IF StartsWith(s, old) THEN new \o Drop(s, Len(old))
  ELSE <<Head(s)>> \o ReplaceFirst(Tail(s), old, new)

RECURSIVE UniversalNewlines(_)
\* Text-mode reading with newline=None: "\r\n" and "\r" both become "\n".
UniversalNewlines(s) ==
  IF s = <<>> THEN <<>>
  ELSE IF Head(s) = CR
       THEN IF Len(s) >= 2 /\ s[2] = LF
            THEN <<LF>> \o UniversalNewlines(Drop(s, 2))
            ELSE <<LF>> \o UniversalNewlines(Tail(s))
       ELSE <<Head(s)>> \o UniversalNewlines(Tail(s))

-----------------------------------------------------------------------------
(* Paths *)

RECURSIVE Split(_, _)
\* s.split(sep): the pieces of s between the separators (some may be empty).
Split(s, acc) ==
  IF s = <<>> THEN <<acc>>
  ELSE IF Head(s) = SEP THEN <<acc>> \o Split(Tail(s), <<>>)
  ELSE Split(Tail(s), Append(acc, Head(s)))

\* Path(s).parts for a relative s: empty pieces and "." pieces are dropped.
PathParts(s) == SelectSeq(Split(s, <<>>), LAMBDA n : n # <<>> /\ n # <<DOT>>)

RECURSIVE Join(_)
Join(parts) ==
  IF parts = <<>> THEN <<>>
  ELSE IF Len(parts) = 1 THEN Head(parts)
  ELSE Head(parts) \o <<SEP>> \o Join(Tail(parts))

\* str(path): the parts joined by the separator, "." for no parts.
PathStr(parts) == IF parts = <<>> THEN <<DOT>> ELSE Join(parts)

Parent(parts) == SubSeq(parts, 1, Len(parts) - 1)

\* The directories above parts (the working directory left out).
Ancestors(parts) == {SubSeq(parts, 1, i) : i \in 1..(Len(parts) - 1)}

-----------------------------------------------------------------------------
(* Filesystem *)

DirEntry == [isDir |-> TRUE, content |-> <<>>]
FileEntry(text) == [isDir |-> FALSE, content |-> text]

EmptyFs == [p \in {} |-> DirEntry]

Exists(f, p) == p = <<>> \/ p \in DOMAIN f
IsDir(f, p) == p = <<>> \/ (p \in DOMAIN f /\ f[p].isDir)
IsFile(f, p) == p \in DOMAIN f /\ ~f[p].isDir

Put(f, p, e) == [q \in (DOMAIN f) \cup {p} |-> IF q = p THEN e ELSE f[q]]

\* Path.mkdir(parents=True, exist_ok=True) raises when the path or one of its
\* ancestors exists and is not a directory.
MkdirRaises(f, p) == \E a \in Ancestors(p) \cup {p} : IsFile(f, a)

MkdirParents(f, p) ==
  [q \in (DOMAIN f) \cup ((Ancestors(p) \cup {p}) \ {<<>>}) |->
     IF q \in DOMAIN f THEN f[q] ELSE DirEntry]

\* Path.read_text(): text mode, universal newlines.
ReadText(f, p) == UniversalNewlines(f[p].content)

\* Path.write_text(text): on POSIX the text is written as it is, and the whole
\* file is replaced.
WriteText(f, p, text) == Put(f, p, FileEntry(text))

-----------------------------------------------------------------------------
(* Results: what a tool call gives its caller.  msg names the message       *)
(* template of section "EXTERNAL INTERFACES", n its number, body its text.  *)

Returned(msg, n, body) == [kind |-> "return", msg |-> msg, n |-> n, body |-> body]
Raised(exc) == [kind |-> "raise", msg |-> exc, n |-> 0, body |-> <<>>]
NoResult == [kind |-> "none", msg |-> "", n |-> 0, body |-> <<>>]
NoCall == [op |-> "none"]

IsError(r) == r.kind = "return" /\ r.msg \in
  {"Error: Invalid input parameters", "Error: old_str not found in file.",
   "Error: old_str found <n> times", "Error: An unexpected error occurred",
   "Error: File not found", "Error: Failed to read file",
   "Error: Failed to list files"}

-----------------------------------------------------------------------------
(* edit_file *)

Unexpected == Returned("Error: An unexpected error occurred", 0, <<>>)

\* EditExisting as it would be if the file were opened for writing (and so
\* truncated) before the occurrences are counted.
EditExistingInPlace(f1, p, old_str, new_str) ==
  LET old_content == ReadText(f1, p)
      count == Count(old_content, old_str)
      opened == WriteText(f1, p, <<>>)
  IN
  IF old_str # <<>> /\ count = 0
  THEN [fs |-> opened, ops |-> <<"mkdir", "exists", "read_text", "write_text">>,
        result |-> Returned("Error: old_str not found in file.", 0, <<>>)]
  ELSE IF old_str # <<>> /\ count > 1
  THEN [fs |-> opened, ops |-> <<"mkdir", "exists", "read_text", "write_text">>,
        result |-> Returned("Error: old_str found <n> times", count, <<>>)]
  ELSE
  LET new_content == IF old_str = <<>> THEN old_content \o new_str
                     ELSE ReplaceFirst(old_content, old_str, new_str)
  IN [fs |-> WriteText(f1, p, new_content),
      ops |-> <<"mkdir", "exists", "read_text", "write_text">>,
      result |-> Returned("OK", 0, <<>>)]

\* The existing file p is read, edited in memory and written back whole.
EditExisting(f1, p, old_str, new_str) ==
  LET old_content == ReadText(f1, p)
      count == Count(old_content, old_str)
  IN
  IF old_str # <<>> /\ count = 0
  THEN [fs |-> f1, ops |-> <<"mkdir", "exists", "read_text">>,
        result |-> Returned("Error: old_str not found in file.", 0, <<>>)]
  ELSE IF old_str # <<>> /\ count > 1
  THEN [fs |-> f1, ops |-> <<"mkdir", "exists", "read_text">>,
        result |-> Returned("Error: old_str found <n> times", count, <<>>)]
  ELSE
  LET new_content == IF old_str = <<>> THEN old_content \o new_str
                     ELSE ReplaceFirst(old_content, old_str, new_str)
  IN [fs |-> WriteText(f1, p, new_content),
      ops |-> <<"mkdir", "exists", "read_text", "write_text">>,
      result |-> Returned("OK", 0, <<>>)]

\* The filesystem work of edit_file after its precondition check, given the
\* parsed path p: [fs, result, ops], ops being the filesystem calls made.
EditBody(f, path, p, old_str, new_str) ==
  IF MkdirRaises(f, Parent(p))
  THEN [fs |-> f, ops |-> <<"mkdir">>, result |-> Unexpected]
  ELSE
  LET f1 == MkdirParents(f, Parent(p)) IN
  IF ~Exists(f1, p) /\ old_str = <<>>
  THEN [fs |-> WriteText(f1, p, new_str), ops |-> <<"mkdir", "exists", "write_text">>,
        result |-> Returned("Successfully created and wrote to new file", 0, path)]
  ELSE IF ~IsFile(f1, p)
  THEN [fs |-> f1, ops |-> <<"mkdir", "exists", "read_text">>, result |-> Unexpected]
  ELSE EditExisting(f1, p, old_str, new_str)

\* EditFileOn as it would be if the precondition rejected the empty path only.
EditFileOnNoOpAccepted(f, path, old_str, new_str) ==
  IF path = <<>>
  THEN [fs |-> f, ops |-> <<>>,
        result |-> Returned("Error: Invalid input parameters", 0, <<>>)]
  ELSE EditBody(f, path, PathParts(path), old_str, new_str)

\* edit_file(path, old_str, new_str) on filesystem f.
EditFileOn(f, path, old_str, new_str) ==
  IF path = <<>> \/ old_str = new_str
  THEN [fs |-> f, ops |-> <<>>,
        result |-> Returned("Error: Invalid input parameters", 0, <<>>)]
  ELSE EditBody(f, path, PathParts(path), old_str, new_str)

-----------------------------------------------------------------------------
(* read_file *)

ReadFileOn(f, path) ==
  LET p == PathParts(path) IN
  IF ~Exists(f, p) THEN Returned("Error: File not found", 0, path)
  ELSE IF ~IsFile(f, p) THEN Returned("Error: Failed to read file", 0, path)
  ELSE Returned("", 0, ReadText(f, p))

-----------------------------------------------------------------------------
(* The edit_file / read_file machine *)

TextChars == {"a", CR, LF}
Contents == StrSet(TextChars, MaxContent)
\* The old_str and new_str values tried.
Args == {<<>>, <<"a">>, <<CR>>, <<LF>>, <<"a", "a">>, <<"a", LF>>, <<CR, LF>>}

TargetPath == <<"d", SEP, "f">>
Target == PathParts(TargetPath)
EditPaths == {<<>>, TargetPath}
ReadPaths == {TargetPath, <<"d">>}

\* The history of the target: the new_str values of the create/append calls
\* made on it since it last did not exist; "untracked" once any other call
\* has been made on it while it existed.
Untracked == <<"untracked">>

NextHist(h, f2, path, old_str, new_str) ==
  IF ~Exists(f2, Target) THEN <<>>
  ELSE IF path # TargetPath THEN h
  ELSE IF h # Untracked /\ old_str = <<>> /\ new_str # <<>> THEN Append(h, new_str)
  ELSE Untracked

InitEdit ==
  /\ fs \in {EmptyFs, MkdirParents(EmptyFs, Parent(Target))}
            \cup {WriteText(MkdirParents(EmptyFs, Parent(Target)), Target, c) : c \in Contents}
  /\ pre = fs
  /\ call = NoCall
  /\ result = NoResult
  /\ ops = <<>>
  /\ hist = IF Exists(fs, Target) THEN Untracked ELSE <<>>

EditFile(path, old_str, new_str) ==
  \E r \in {EditFileOn(fs, path, old_str, new_str)} :
    /\ \A q \in DOMAIN r.fs : Len(r.fs[q].content) <= MaxContent
    /\ fs' = r.fs
    /\ pre' = fs
    /\ call' = [op |-> "edit_file", path |-> path, old_str |-> old_str, new_str |-> new_str]
    /\ result' = r.result
    /\ ops' = r.ops
    /\ hist' = NextHist(hist, r.fs, path, old_str, new_str)

ReadFile(path) ==
  /\ call' = [op |-> "read_file", path |-> path]
  /\ result' = ReadFileOn(fs, path)
  /\ pre' = fs
  /\ ops' = <<"read_text">>
  /\ UNCHANGED <<fs, hist>>

NextEdit ==
  \/ \E path \in EditPaths, old_str \in Args, new_str \in Args :
       EditFile(path, old_str, new_str)
  \/ \E path \in ReadPaths : ReadFile(path)

SpecEdit == InitEdit /\ [][NextEdit]_vars

-----------------------------------------------------------------------------
(* list_files *)

\* The code point of a character of a name.
Code(c) ==
  CASE c = "-" -> 45 [] c = "." -> 46 [] c = "/" -> 47
    [] c = "a" -> 97 [] c = "d" -> 100 [] c = "f" -> 102 [] c = "g" -> 103

RECURSIVE StrLess(_, _)
\* s < t for Python strings: by code point, a proper prefix first.
StrLess(s, t) ==
  IF t = <<>> THEN FALSE
  ELSE IF s = <<>> THEN TRUE
  ELSE IF Head(s) = Head(t) THEN StrLess(Tail(s), Tail(t))
  ELSE Code(Head(s)) < Code(Head(t))

\* PartsLess as it would be if the paths were sorted as strings.
PartsLessByString(p, q) == StrLess(PathStr(p), PathStr(q))

RECURSIVE PartsLess(_, _)
\* p < q for pathlib paths: their lists of parts compared, part by part.
PartsLess(p, q) ==
  IF q = <<>> THEN FALSE
  ELSE IF p = <<>> THEN TRUE
  ELSE IF Head(p) = Head(q) THEN PartsLess(Tail(p), Tail(q))
  ELSE StrLess(Head(p), Head(q))

RECURSIVE Sorted(_)
\* sorted(paths)
Sorted(ps) ==
  IF ps = {} THEN <<>>
  ELSE LET least == CHOOSE p \in ps : \A q \in ps \ {p} : PartsLess(p, q)
       IN <<least>> \o Sorted(ps \ {least})

\* base.rglob("*"): every entry beneath base; nothing when base is missing or
\* is not a directory.
Rglob(f, base) ==
  IF ~IsDir(f, base) THEN {}
  ELSE {p \in DOMAIN f : Len(p) > Len(base) /\ SubSeq(p, 1, Len(base)) = base}

\* HasHiddenPart as it would be if only the entry's own name were looked at.
HiddenNameOnly(p) == p # <<>> /\ Head(p[Len(p)]) = DOT

\* any(part.startswith(".") for part in p.parts)
HasHiddenPart(p) == \E i \in 1..Len(p) : Head(p[i]) = DOT

\* str(p.relative_to(base)) + ("/" if p.is_dir() else "")
ListEntry(f, base, p) ==
  PathStr(Drop(p, Len(base))) \o (IF IsDir(f, p) THEN <<SEP>> ELSE <<>>)

\* list_files(path) on filesystem f; oserror: the traversal raises (the base
\* cannot be examined for a reason other than its absence).
ListFilesOn(f, path, oserror) ==
  IF oserror THEN Returned("Error: Failed to list files", 0, path)
  ELSE LET base == PathParts(path)
           kept == SelectSeq(Sorted(Rglob(f, base)), LAMBDA p : ~HasHiddenPart(p))
       IN Returned("", 0, [i \in 1..Len(kept) |-> ListEntry(f, base, kept[i])])

-----------------------------------------------------------------------------
(* The list_files machine: the tree grows entry by entry, and is listed. *)

Names == {<<"a">>, <<"a", "-">>, <<DOT, "g">>}
BasePaths == {<<DOT>>, <<"a">>, <<"a", "-">>, <<DOT, "g">>, <<DOT, SEP, "a">>}

InitList ==
  /\ fs = EmptyFs
  /\ pre = fs
  /\ call = NoCall
  /\ result = NoResult
  /\ ops = <<>>
  /\ hist = <<>>

CanAdd(p) ==
  /\ p \notin DOMAIN fs
  /\ IsDir(fs, Parent(p))
  /\ Len(p) <= MaxDepth
  /\ Cardinality(DOMAIN fs) < MaxEntries

\* The environment adds a directory or a file to the tree.
MakeDir(p) ==
  /\ CanAdd(p)
  /\ fs' = Put(fs, p, DirEntry)
  /\ pre' = fs'
  /\ call' = NoCall
  /\ result' = NoResult
  /\ UNCHANGED <<ops, hist>>

MakeFile(p) ==
  /\ CanAdd(p)
  /\ fs' = Put(fs, p, FileEntry(<<>>))
  /\ pre' = fs'
  /\ call' = NoCall
  /\ result' = NoResult
  /\ UNCHANGED <<ops, hist>>

ListFiles(path, oserror) ==
  /\ call' = [op |-> "list_files", path |-> path, oserror |-> oserror]
  /\ result' = ListFilesOn(fs, path, oserror)
  /\ pre' = fs
  /\ UNCHANGED <<fs, ops, hist>>

NextList ==
  \/ \E parent \in {<<>>} \cup DOMAIN fs, name \in Names : MakeDir(Append(parent, name))
  \/ \E parent \in {<<>>} \cup DOMAIN fs, name \in Names : MakeFile(Append(parent, name))
  \/ \E path \in BasePaths, oserror \in BOOLEAN : ListFiles(path, oserror)

SpecList == InitList /\ [][NextList]_vars

-----------------------------------------------------------------------------
(* bash *)

Whitespace == {" ", LF, CR}
BadByte == "xFF"

\* Whether a captured byte string decodes as UTF-8.
Decodable(bytes) == \A i \in 1..Len(bytes) : bytes[i] # BadByte

\* The text subprocess.run(text=True) makes of captured bytes.
Decode(bytes) == UniversalNewlines(bytes)

RECURSIVE RStrip(_)
\* Strip as it would be if only trailing whitespace were removed (str.rstrip()).
RStrip(s) ==
  IF s # <<>> /\ s[Len(s)] \in Whitespace THEN RStrip(SubSeq(s, 1, Len(s) - 1)) ELSE s

RECURSIVE Strip(_)
\* str.strip(): whitespace removed at both ends.
Strip(s) ==
  IF s # <<>> /\ Head(s) \in Whitespace THEN Strip(Tail(s))
  ELSE IF s # <<>> /\ s[Len(s)] \in Whitespace THEN Strip(SubSeq(s, 1, Len(s) - 1))
  ELSE s

\* bash(command), proc being what the command's subprocess does: whether
\* /bin/bash could be started, and then its exit status and the bytes it wrote
\* to standard output and standard error.
BashOn(proc) ==
  IF ~proc.started THEN Raised("FileNotFoundError")
  ELSE IF ~Decodable(proc.stdout) \/ ~Decodable(proc.stderr)
  THEN Raised("UnicodeDecodeError")
  ELSE IF proc.returncode # 0
  THEN Returned("Command failed with exit code <n>:", proc.returncode, Decode(proc.stderr))
  ELSE Returned("", 0, Strip(Decode(proc.stdout)))

-----------------------------------------------------------------------------
(* The bash machine *)

OutBytes == {"h", LF, BadByte}
ErrBytes == {"e", BadByte}
ExitCodes == {0, 3}

NotStarted == [started |-> FALSE, returncode |-> 0, stdout |-> <<>>, stderr |-> <<>>]
Processes ==
  {NotStarted} \cup
  [started : {TRUE}, returncode : ExitCodes,
   stdout : StrSet(OutBytes, MaxOut), stderr : StrSet(ErrBytes, MaxErr)]

InitBash ==
  /\ fs = EmptyFs
  /\ pre = fs
  /\ call = NoCall
  /\ result = NoResult
  /\ ops = <<>>
  /\ hist = <<>>

Bash(proc) ==
  /\ call' = [op |-> "bash", proc |-> proc]
  /\ result' = BashOn(proc)
  /\ UNCHANGED <<fs, pre, ops, hist>>

NextBash == \E proc \in Processes : Bash(proc)

SpecBash == InitBash /\ [][NextBash]_vars

-----------------------------------------------------------------------------
(* Claims about edit_file, under SpecEdit *)

IsEdit == call.op = "edit_file"
EditOfTarget == IsEdit /\ call.path = TargetPath

SameFiles(f, g) ==
  /\ \A p \in DOMAIN f : IsFile(f, p) => IsFile(g, p) /\ g[p].content = f[p].content
  /\ \A p \in DOMAIN g : IsFile(g, p) => IsFile(f, p)

\* C1: for an existing file and a non-empty old_str that differs from new_str,
\* with k the number of non-overlapping occurrences of old_str in the file's
\* content: edit_file returns "OK" and changes the file iff k = 1, the new
\* content being the old one with that occurrence replaced; for k = 0 and for
\* k >= 2 it returns an error (naming k when k >= 2) and the content is unchanged.
C1_UniqueReplace ==
  (EditOfTarget /\ IsFile(pre, Target) /\ call.old_str # <<>>
     /\ call.old_str # call.new_str)
  => LET old == pre[Target].content
         k == Count(old, call.old_str)
     IN /\ (k = 1) <=> (result.msg = "OK")
        /\ (k = 1) => /\ fs[Target].content = ReplaceFirst(old, call.old_str, call.new_str)
                      /\ fs # pre
        /\ (k = 0) => IsError(result) /\ fs = pre
        /\ (k >= 2) => /\ result.msg = "Error: old_str found <n> times"
                       /\ result.n = k
                       /\ fs = pre

\* C4: from a path whose file does not exist, after each of a sequence of
\* edit_file calls with empty old_str and non-empty new_str the file holds
\* exactly the concatenation of the new_str values so far; the first call
\* creates the file and its parent directories and says so, the later ones
\* return "OK".
C4_CreateThenAppend ==
  (hist # Untracked /\ Len(hist) >= 1)
  => /\ IsFile(fs, Target)
     /\ IsDir(fs, Parent(Target))
     /\ fs[Target].content = Concat(hist)
     /\ EditOfTarget =>
          result.msg = (IF Len(hist) = 1
                        THEN "Successfully created and wrote to new file" ELSE "OK")

\* C5: with an empty path or with old_str equal to new_str, edit_file returns
\* the invalid-input error and makes no filesystem call: nothing is read,
\* written or created.
C5_InvalidInputNoAccess ==
  (IsEdit /\ (call.path = <<>> \/ call.old_str = call.new_str))
  => /\ result.msg = "Error: Invalid input parameters"
     /\ ops = <<>>
     /\ fs = pre

\* C5's case: a no-op edit aimed at an existing file that holds old_str once
\* (an edit that would otherwise be applied) is rejected.
C5_Witness ==
  /\ EditOfTarget /\ call.old_str = call.new_str /\ call.old_str # <<>>
  /\ IsFile(pre, Target) /\ Count(ReadText(pre, Target), call.old_str) = 1
  /\ result.msg = "Error: Invalid input parameters"

-----------------------------------------------------------------------------
(* Claims about list_files, under SpecList *)

IsListing == call.op = "list_files" /\ ~call.oserror
Base == PathParts(call.path)
Items == result.body

Visible(p) == \A i \in 1..Len(p) : Head(p[i]) # DOT
Beneath(f, base) == {p \in DOMAIN f : Len(p) > Len(base) /\ SubSeq(p, 1, Len(base)) = base}
Listed(entry) == \E i \in 1..Len(Items) : Items[i] = entry

\* The parts of a listed entry (its trailing separator dropped).
ItemParts(item) == PathParts(item)

NoHiddenItem ==
  \A i \in 1..Len(Items) :
    \A j \in 1..Len(Split(Items[i], <<>>)) :
      LET piece == Split(Items[i], <<>>)[j] IN piece = <<>> \/ Head(piece) # DOT

\* C2: the listing never contains an entry with a component that begins with
\* ".", nor anything beneath such a component, at any depth (a component of the
\* base path counts: beneath a hidden base nothing is listed); the entries none
\* of whose components begins with "." are listed.
C2_HiddenExcludedVisibleKept ==
  (IsListing /\ IsDir(fs, Base))
  => /\ NoHiddenItem
     /\ \A p \in Beneath(fs, Base) : Visible(p) => Listed(ListEntry(fs, Base, p))
     /\ ~Visible(Base) => Items = <<>>

\* C2's case: a hidden directory with an entry beneath it, a hidden entry inside
\* a visible directory, and a visible entry in a visible directory.
C2_Witness ==
  /\ IsListing /\ call.path = <<DOT>>
  /\ IsDir(fs, <<(<<DOT, "g">>)>>)
  /\ <<(<<DOT, "g">>), <<"a">>>> \in DOMAIN fs
  /\ <<(<<"a">>), <<DOT, "g">>>> \in DOMAIN fs
  /\ Items = << <<"a", SEP>> >>

\* C6: when the base path does not exist, or is not a directory, list_files
\* returns the error result and not a listing.
C6_MissingBaseIsError ==
  (call.op = "list_files" /\ ~IsDir(fs, Base))
  => result.msg = "Error: Failed to list files"

\* The string of the path an item was made from: str(base / relative).
ItemPathStr(item) == PathStr(Base \o ItemParts(item))

\* C9 as stated: the entries are in ascending order of their path strings, the
\* whole string compared character by character, separators included.
C9_SortedAsStrings ==
  IsListing =>
    \A i \in 1..(Len(Items) - 1) : StrLess(ItemPathStr(Items[i]), ItemPathStr(Items[i + 1]))

\* p before q when, at the first part where they differ, p has ended or p's
\* part is the smaller string.
PartwiseLess(p, q) ==
  \E k \in 0..Len(p) :
    /\ k <= Len(q) /\ SubSeq(p, 1, k) = SubSeq(q, 1, k)
    /\ \/ k = Len(p) /\ k < Len(q)
       \/ k < Len(p) /\ k < Len(q) /\ p[k + 1] # q[k + 1] /\ StrLess(p[k + 1], q[k + 1])

\* C9 amended: the entries are in ascending order of their paths compared
\* component by component (each component as a string, a path before the
\* entries beneath it), files and directories interleaved; the order is that of
\* the paths before they are made relative and before the suffix is added.
C9_SortedByParts ==
  IsListing =>
    \A i \in 1..(Len(Items) - 1) :
      PartwiseLess(Base \o ItemParts(Items[i]), Base \o ItemParts(Items[i + 1]))

\* C9's case: a directory, an entry beneath it and a sibling whose name
\* continues the directory's with a character below the separator.
C9_Witness ==
  /\ IsListing /\ call.path = <<DOT>>
  /\ Items = << <<"a", SEP>>, <<"a", SEP, "a">>, <<"a", "-">> >>

-----------------------------------------------------------------------------
(* Claims about bash, under SpecBash *)

IsBash == call.op = "bash"
Exited(proc) == proc.started

\* C3: whenever the subprocess exits with a nonzero status n, bash does not
\* raise: it returns "Command failed with exit code <n>:" followed by the whole
\* captured standard error; and it returns a result of that form only then.
C3_NonzeroExitIsReturned ==
  IsBash =>
    /\ (Exited(call.proc) /\ call.proc.returncode # 0)
         => /\ result.kind = "return"
            /\ result.msg = "Command failed with exit code <n>:"
            /\ result.n = call.proc.returncode
            /\ Decodable(call.proc.stderr) => result.body = Decode(call.proc.stderr)
    /\ result.msg = "Command failed with exit code <n>:"
         => Exited(call.proc) /\ call.proc.returncode # 0

\* C7: whatever fails underneath (a command interpreter that cannot be started,
\* output that cannot be decoded, a nonzero exit, a missing or unreadable file),
\* the operation returns a string; no exception escapes to the caller.
C7_NoExceptionEscapes == call.op # "none" => result.kind = "return"

ExitedZero == IsBash /\ Exited(call.proc) /\ call.proc.returncode = 0
Decoded == Decodable(call.proc.stdout) /\ Decodable(call.proc.stderr)

TrimmedBothEnds(text, t) ==
  \E i, j \in 0..Len(text) :
    /\ i + j <= Len(text)
    /\ t = SubSeq(text, i + 1, Len(text) - j)
    /\ \A k \in 1..i : text[k] \in Whitespace
    /\ \A k \in (Len(text) - j + 1)..Len(text) : text[k] \in Whitespace
    /\ t = <<>> \/ (t[1] \notin Whitespace /\ t[Len(t)] \notin Whitespace)

-----------------------------------------------------------------------------
(* Where the failing claims do hold *)

NoCR(s) == \A i \in 1..Len(s) : s[i] # CR

\* C1 holds of files without a carriage return in them.
C1_HoldsWithoutCR ==
  (IsEdit /\ IsFile(pre, Target) /\ NoCR(pre[Target].content)) => C1_UniqueReplace

\* C4 holds when no new_str has a carriage return in it.
C4_HoldsWithoutCR ==
  (hist # Untracked /\ \A i \in 1..Len(hist) : NoCR(hist[i])) => C4_CreateThenAppend

\* C3 holds when the command's output decodes.
C3_HoldsWhenDecoded == (IsBash /\ Decoded) => C3_NonzeroExitIsReturned

====
